---- MODULE Spec2Model ----
(***************************************************************************)
(* McpClientManager (packages/core/src/tools/mcp-client-manager.ts) and    *)
(* MessageBusPlugin (confirmation-bus plugin) as state machines.           *)
(*                                                                         *)
(* JavaScript runs one synchronous section at a time; every action below   *)
(* is one such section: the code from a call or from the resumption of an  *)
(* await up to the next await.  Settlements of connect(), discover() and   *)
(* disconnect() and the arrival of calls and events are the environment.   *)
(***************************************************************************)
EXTENDS Integers, Sequences, FiniteSets, TLC

(* ------------------------------ bounds --------------------------------- *)
MaxOps == 4      \* discoverMcpTools operations that pass the guards
MaxCalls == 2    \* calls of the public methods and extension events
MaxToolCalls == 2   \* beforeToolCallback calls
MaxResponses == 3   \* TOOL_CONFIRMATION_RESPONSE messages published

Names == {"a", "b"}            \* server names
NameOrder == <<"a", "b">>      \* Object.entries / Object.keys order
Configs == {"plain", "extActive", "extInactive"}   \* config.extension

VARIABLES
  trusted,           \* cliConfig.isTrustedFolder()
  clients,           \* this.clients: name -> handle (0: no entry)
  disc,              \* per handle: number of disconnect() invocations
  ops,               \* the discoverMcpTools operations, in start order
  calls,             \* the calls of public methods / event handlers
  discoveryState,    \* this.discoveryState
  discoveryPromise,  \* this.discoveryPromise ({}: undefined)
  toolCalls,         \* the beforeToolCallback calls, in call order
  subs,              \* handlers subscribed for TOOL_CONFIRMATION_RESPONSE
  nextId,            \* the next value randomUUID() returns
  displayed,         \* the TOOL_CONFIRMATION_DISPLAY_REQUESTs published
  nresp,             \* number of responses published so far
  perCall            \* the per-call variant's manager, run side by side

busVars == <<toolCalls, subs, nextId, displayed, nresp>>

vars == <<trusted, clients, disc, ops, calls, discoveryState, discoveryPromise,
          toolCalls, subs, nextId, displayed, nresp, perCall>>

(* A handle is identified by the operation that constructed it.            *)
Handles == 1..MaxOps

(* The manager's fields as one record, so that the synchronous part of     *)
(* discoverMcpTools can be applied several times within one action.        *)
Mgr == [clients |-> clients, disc |-> disc, ops |-> ops,
        discoveryState |-> discoveryState, discoveryPromise |-> discoveryPromise]

(* ------------------------- promises of the batch ----------------------- *)
(* A promise is the set of operations whose currentDiscoveryPromise it     *)
(* waits for: {o} is o's currentDiscoveryPromise, Promise.all([p, {o}]) is *)
(* p \cup {o}.  Every call adds a new operation, so different promise      *)
(* objects are different sets and === is set equality.                     *)
Resolved(os, p) == \A o \in p : os[o].outcome = "resolved"
Rejected(os, p) == \E o \in p : os[o].outcome = "rejected"

(* the promise of the call alone, not merged into the batch in flight *)
OwnPromise(dp, cur) == cur

(* lines 135-143: merge into the batch in flight, or start one *)
MergePromise(dp, cur) == IF dp # {} THEN dp \cup cur ELSE cur

(* a start of a batch that leaves the state as it is *)
StateKept(dp, st) == st

(* lines 135-143: IN_PROGRESS is set when no batch is in flight *)
StateOnStart(dp, st) == IF dp # {} THEN st ELSE "IN_PROGRESS"

(* the test of line 146 made against the call's own promise *)
IsOwnPromise(p, dp) == Cardinality(p) = 1 /\ p = dp

(* line 146 *)
IsCurrentPromise(p, dp) == p = dp

(* ---------------------------- disconnectClient ------------------------- *)
(* lines 76-82, up to the await: the entry is deleted and disconnect() is  *)
(* invoked on the handle that was in the map.                              *)
DisconnectClient(m, name) ==
  LET existing == m.clients[name] IN
  IF existing # 0
    THEN [m EXCEPT !.clients[name] = 0, !.disc[existing] = @ + 1]
    ELSE m

(* a guard that looks at the trust of the folder only *)
SkippedIfUntrusted(cfg) == ~trusted

(* lines 92-97: the two early returns of discoverMcpTools *)
Skipped(cfg) == ~trusted \/ cfg = "extInactive"

(* ------------------- discoverMcpTools, synchronous part ---------------- *)
(* lines 91-151 up to the first await of the inner async function, then    *)
(* the merge of the promise and the registration of the then-callback.     *)
DiscoverMcpTools(m, name, cfg, call) ==
  IF Skipped(cfg) THEN m
  ELSE
    LET existing == m.clients[name]
        m1 == DisconnectClient(m, name)
        o == Len(m.ops) + 1
        merged == MergePromise(m.discoveryPromise, {o})
        op == [name |-> name,
               pc |-> "await_disconnect",
               waitOn |-> existing,
               prom |-> merged,
               tried |-> {},
               res |-> "pending",
               outcome |-> "pending",
               feedback |-> 0,
               call |-> call]
    IN [m1 EXCEPT !.ops = Append(@, op),
                  !.discoveryState = StateOnStart(m.discoveryPromise, @),
                  !.discoveryPromise = merged]

Passes(cfg) == trusted /\ cfg # "extInactive"

(* discoverMcpTools for the servers of a list, in order (the map callbacks *)
(* of lines 69-71 and 172-174 run synchronously one after the other).      *)
RECURSIVE DiscoverEach(_, _, _, _)
DiscoverEach(m, names, cfgOf, call) ==
  IF names = <<>> THEN m
  ELSE DiscoverEach(DiscoverMcpTools(m, Head(names), cfgOf[Head(names)], call),
                    Tail(names), cfgOf, call)

RECURSIVE DisconnectEach(_, _)
DisconnectEach(m, names) ==
  IF names = <<>> THEN m
  ELSE DisconnectEach(DisconnectClient(m, Head(names)), Tail(names))

InOrder(S) == SelectSeq(NameOrder, LAMBDA n : n \in S)

SetMgr(m) ==
  /\ clients' = m.clients
  /\ disc' = m.disc
  /\ ops' = m.ops
  /\ discoveryState' = m.discoveryState
  /\ discoveryPromise' = m.discoveryPromise

(* Operations already started plus those a pending discoverAllMcpTools     *)
(* will start after its stop(): the bound MaxOps is charged at call time.  *)
RECURSIVE SumReserved(_)
SumReserved(i) ==
  IF i = 0 THEN 0
  ELSE SumReserved(i - 1) +
       (IF calls[i].kind = "all" /\ calls[i].pc \in {"stopping", "stopped"}
          THEN Cardinality(calls[i].names \ calls[i].inactive)
          ELSE 0)

Committed == Len(ops) + SumReserved(Len(calls))

(* No call is in progress and no operation unsettled (history: recorded   *)
(* for a call when it is made, not read by the code).  Of a call, snap is  *)
(* the set of handles it invoked disconnect() on when it was made, wait    *)
(* those whose disconnect() has not settled yet, and failed tells whether  *)
(* one of these disconnect() rejected (history as well).                   *)
Quiescent ==
  /\ \A c \in 1..Len(calls) : calls[c].pc = "done"
  /\ \A o \in 1..Len(ops) : ops[o].outcome # "pending"

NewCall(kind, pc, names, inactive, wait) ==
  [kind |-> kind, pc |-> pc, names |-> names, inactive |-> inactive,
   wait |-> wait, outcome |-> IF pc = "done" THEN "resolved" ELSE "pending",
   setTools |-> FALSE, quiet |-> Quiescent, snap |-> wait, failed |-> FALSE]

CfgOf(inactive) == [n \in Names |-> IF n \in inactive THEN "extInactive" ELSE "plain"]

OpsOf(c) == {o \in 1..Len(ops) : ops[o].call = c}

InMap(m) == {m.clients[n] : n \in Names} \ {0}

(* ------------------------------- Init ---------------------------------- *)
(* the fields of a manager that has just been constructed *)
NewManager ==
  [clients |-> [n \in Names |-> 0], disc |-> [h \in Handles |-> 0], ops |-> <<>>,
   discoveryState |-> "NOT_STARTED", discoveryPromise |-> {}]

Init ==
  /\ trusted \in BOOLEAN
  /\ clients = [n \in Names |-> 0]
  /\ disc = [h \in Handles |-> 0]
  /\ ops = <<>>
  /\ calls = <<>>
  /\ discoveryState = "NOT_STARTED"
  /\ discoveryPromise = {}
  /\ toolCalls = <<>>
  /\ subs = <<>>
  /\ nextId = 1
  /\ displayed = <<>>
  /\ nresp = 0
  /\ perCall = NewManager

(* ------------------ the inner async function of an operation ----------- *)
(* a client that is constructed but not stored *)
ClientNotStored(cl, name, h) == cl

(* lines 104-112: construct the client and store it in the map *)
NewClient(cl, name, h) == [cl EXCEPT ![name] = h]

(* line 102 resumes (the disconnect() awaited in disconnectClient has      *)
(* settled, a rejection being caught and logged in lines 83-87, or there   *)
(* was no handle and the await of line 102 just yields); then lines        *)
(* 104-115: the client is constructed and stored and connect() is invoked. *)
(* The settlement changes nothing but this operation's own position, so it *)
(* is one step with the code that resumes on it.                           *)
CreateClient(o) ==
  /\ o \in 1..Len(ops)
  /\ ops[o].pc = "await_disconnect"
  /\ \E ok \in BOOLEAN :
       /\ clients' = NewClient(clients, ops[o].name, o)
       /\ ops' = [ops EXCEPT ![o].pc = "connecting", ![o].tried = {"connect"}]
  /\ UNCHANGED <<busVars, perCall, trusted, disc, calls, discoveryState, discoveryPromise>>

(* a catch block that rethrows instead of reporting *)
OnDiscoveryErrorRethrown(op, res) ==
  [op EXCEPT !.pc = "done", !.res = res, !.outcome = "rejected"]

(* lines 118-131: the catch block reports the error, finally resolves *)
OnDiscoveryError(op, res) ==
  [op EXCEPT !.pc = "done", !.res = res, !.feedback = @ + 1, !.outcome = "resolved"]

(* lines 116-117, 129-131 *)
OnDiscovered(op) ==
  [op EXCEPT !.pc = "done", !.res = "ok", !.outcome = "resolved"]

(* a rejected connect() after which discover() is invoked all the same *)
DiscoverAfterConnectRejected(op) ==
  [OnDiscoveryError(op, "connect_failed") EXCEPT !.tried = @ \cup {"discover"}]

(* lines 114-118: a rejection of connect() leaves the try block before     *)
(* line 116, for the catch block                                           *)
OnConnectRejected(op) == OnDiscoveryError(op, "connect_failed")

(* line 115 resumes: connect() settles *)
ConnectSettles(o) ==
  /\ o \in 1..Len(ops)
  /\ ops[o].pc = "connecting"
  /\ \E ok \in BOOLEAN :
       ops' = [ops EXCEPT ![o] = IF ok THEN [@ EXCEPT !.pc = "discovering",
                                                          !.tried = @ \cup {"discover"}]
                                       ELSE OnConnectRejected(@)]
  /\ UNCHANGED <<busVars, perCall, trusted, clients, disc, calls, discoveryState, discoveryPromise>>

(* line 116 resumes: discover() settles *)
DiscoverSettles(o) ==
  /\ o \in 1..Len(ops)
  /\ ops[o].pc = "discovering"
  /\ \E ok \in BOOLEAN :
       ops' = [ops EXCEPT ![o] = IF ok THEN OnDiscovered(@)
                                       ELSE OnDiscoveryError(@, "discover_failed")]
  /\ UNCHANGED <<busVars, perCall, trusted, clients, disc, calls, discoveryState, discoveryPromise>>

(* a drained batch that puts the state back to its initial value *)
StateReset(st) == "NOT_STARTED"

(* line 148 *)
StateOnDrained(st) == "COMPLETED"

(* lines 145-150: the then-callback of the promise the call returned.      *)
(* A promise that is not this.discoveryPromise when it resolves never is   *)
(* again (later promises hold a later operation), so a callback that has   *)
(* run is a callback whose test of line 146 fails: no flag records it.     *)
ThenCallback(o) ==
  /\ o \in 1..Len(ops)
  /\ Resolved(ops, ops[o].prom)
  /\ IF IsCurrentPromise(ops[o].prom, discoveryPromise)
       THEN /\ discoveryPromise' = {}
            /\ discoveryState' = StateOnDrained(discoveryState)
       ELSE UNCHANGED <<discoveryPromise, discoveryState>>
  /\ UNCHANGED <<busVars, perCall, trusted, clients, disc, ops, calls>>

(* ------------------------------- the calls ----------------------------- *)
(* discoverMcpTools(name, config), lines 91-151 *)
CallDiscoverMcpTools(name, cfg) ==
  /\ Len(calls) < MaxCalls
  /\ Committed + (IF Passes(cfg) THEN 1 ELSE 0) <= MaxOps
  /\ SetMgr(DiscoverMcpTools(Mgr, name, cfg, Len(calls) + 1))
  /\ calls' = Append(calls,
       NewCall("one", IF Passes(cfg) THEN "discovering" ELSE "done", {name},
               IF cfg = "extInactive" THEN {name} ELSE {}, {}))
  /\ UNCHANGED <<busVars, perCall, trusted>>

(* loadExtension, lines 66-72 up to the await *)
CallLoadExtension(S, cfg) ==
  /\ Len(calls) < MaxCalls
  /\ Committed + (IF Passes(cfg) THEN Cardinality(S) ELSE 0) <= MaxOps
  /\ SetMgr(DiscoverEach(Mgr, InOrder(S), [n \in Names |-> cfg], Len(calls) + 1))
  /\ calls' = Append(calls,
       NewCall("load", "discovering", S, IF cfg = "extInactive" THEN S ELSE {}, {}))
  /\ UNCHANGED <<busVars, perCall, trusted>>

(* unloadExtension, lines 56-62 up to the await *)
CallUnloadExtension(S) ==
  /\ Len(calls) < MaxCalls
  /\ SetMgr(DisconnectEach(Mgr, InOrder(S)))
  /\ calls' = Append(calls,
       NewCall("unload", "disconnecting", S, {}, {clients[n] : n \in S} \ {0}))
  /\ UNCHANGED <<busVars, perCall, trusted>>

(* stop(), lines 183-195 up to the await: disconnect() is invoked on every *)
(* handle of the map; the map is not changed yet.                          *)
StopSync(m) ==
  [m EXCEPT !.disc = [h \in Handles |-> IF h \in InMap(m) THEN @[h] + 1 ELSE @[h]]]

CallStop ==
  /\ Len(calls) < MaxCalls
  /\ SetMgr(StopSync(Mgr))
  /\ calls' = Append(calls, NewCall("stop", "stopping", {}, {}, InMap(Mgr)))
  /\ UNCHANGED <<busVars, perCall, trusted>>

(* discoverAllMcpTools, lines 159-163 and the synchronous part of stop() *)
CallDiscoverAll(S, inactive) ==
  /\ Len(calls) < MaxCalls
  /\ Committed + (IF trusted THEN Cardinality(S \ inactive) ELSE 0) <= MaxOps
  /\ IF trusted
       THEN /\ SetMgr(StopSync(Mgr))
            /\ calls' = Append(calls, NewCall("all", "stopping", S, inactive, InMap(Mgr)))
       ELSE /\ calls' = Append(calls, NewCall("all", "done", S, inactive, {}))
            /\ UNCHANGED <<clients, disc, ops, discoveryState, discoveryPromise>>
  /\ UNCHANGED <<busVars, perCall, trusted>>

(* a rejected disconnect() that rejects the caller's Promise.all *)
OnDisconnectRejectionThrown(call, h, ok) ==
  IF ok THEN [call EXCEPT !.wait = @ \ {h}]
        ELSE [call EXCEPT !.wait = @ \ {h}, !.failed = TRUE,
                          !.pc = "done", !.outcome = "rejected"]

(* lines 185-191 and 82-87: the rejection of a disconnect() is caught and  *)
(* logged, the promise the caller awaits is fulfilled either way           *)
OnDisconnectSettled(call, h, ok) ==
  [call EXCEPT !.wait = @ \ {h}, !.failed = @ \/ ~ok]

(* lines 186-191 (stop) and 82-87 (disconnectClient, awaited by            *)
(* unloadExtension): one awaited disconnect() settles; a rejection is      *)
(* caught and logged.                                                      *)
AwaitedDisconnectSettles(c, h) ==
  /\ c \in 1..Len(calls)
  /\ calls[c].pc \in {"stopping", "disconnecting"}
  /\ h \in calls[c].wait
  /\ \E ok \in BOOLEAN :
       calls' = [calls EXCEPT ![c] = OnDisconnectSettled(@, h, ok)]
  /\ UNCHANGED <<busVars, perCall, trusted, clients, disc, ops, discoveryState, discoveryPromise>>

(* a stop() that does not clear the map *)
KeepClients(m) == m

(* line 196 *)
ClearClients(m) == [m EXCEPT !.clients = [n \in Names |-> 0]]

(* a stop() that goes on without waiting for its disconnects *)
DisconnectsNotAwaited(call) == TRUE

(* line 195: await Promise.all(disconnectionPromises) *)
DisconnectsSettled(call) == call.wait = {}

(* stop(), lines 195-196: all disconnects have settled and the map is     *)
(* cleared; stop() called by discoverAllMcpTools returns to line 163.      *)
StopFinish(c) ==
  /\ c \in 1..Len(calls)
  /\ calls[c].pc = "stopping"
  /\ DisconnectsSettled(calls[c])
  /\ SetMgr(ClearClients(Mgr))
  /\ calls' = IF calls[c].kind = "stop"
                THEN [calls EXCEPT ![c].pc = "done", ![c].outcome = "resolved"]
                ELSE [calls EXCEPT ![c].pc = "stopped"]
  /\ UNCHANGED <<busVars, perCall, trusted>>

(* discoverAllMcpTools, lines 163-175: the await of stop() resumes and     *)
(* discoverMcpTools is called for every configured server                  *)
DiscoverAllAfterStop(c) ==
  /\ c \in 1..Len(calls)
  /\ calls[c].kind = "all"
  /\ calls[c].pc = "stopped"
  /\ SetMgr(DiscoverEach(Mgr, InOrder(calls[c].names), CfgOf(calls[c].inactive), c))
  /\ calls' = [calls EXCEPT ![c].pc = "discovering"]
  /\ UNCHANGED <<busVars, perCall, trusted>>

(* Promise.all over the promises the discoverMcpTools calls returned       *)
(* (lines 68-73, 171-175) or the promise of the one call (line 151).       *)
(* The caller resumes after the then-callback of lines 145-150, which was  *)
(* registered on the same promise before it was returned: the promise is   *)
(* no longer this.discoveryPromise then.                                   *)
AllOutcome(os, S) ==
  IF \E o \in S : Rejected(os, os[o].prom) THEN "rejected" ELSE "resolved"

(* the promise operation o returned has settled and its then-callback    *)
(* has run                                                                 *)
ReturnedSettled(os, o, dp) ==
  \/ Resolved(os, os[o].prom) /\ os[o].prom # dp
  \/ Rejected(os, os[o].prom)

(* a caller that goes on as soon as one of the promises has settled *)
PromiseAny(os, S, dp) == S = {} \/ \E o \in S : ReturnedSettled(os, o, dp)

(* lines 68-72, 171-175: await Promise.all(...) *)
PromiseAll(os, S, dp) == \A o \in S : ReturnedSettled(os, o, dp)

CallSettles(c) ==
  /\ c \in 1..Len(calls)
  /\ calls[c].pc = "discovering"
  /\ PromiseAll(ops, OpsOf(c), discoveryPromise)
  /\ calls' = [calls EXCEPT ![c].pc = "done",
                            ![c].outcome = AllOutcome(ops, OpsOf(c)),
                            ![c].setTools = (calls[c].kind = "load"
                                             /\ AllOutcome(ops, OpsOf(c)) = "resolved")]
  /\ UNCHANGED <<busVars, perCall, trusted, clients, disc, ops, discoveryState, discoveryPromise>>

(* unloadExtension, lines 62-63 *)
UnloadFinish(c) ==
  /\ c \in 1..Len(calls)
  /\ calls[c].kind = "unload"
  /\ calls[c].pc = "disconnecting"
  /\ calls[c].wait = {}
  /\ calls' = [calls EXCEPT ![c].pc = "done", ![c].outcome = "resolved",
                            ![c].setTools = TRUE]
  /\ UNCHANGED <<busVars, perCall, trusted, clients, disc, ops, discoveryState, discoveryPromise>>

Internal ==
  \/ \E o \in 1..MaxOps : CreateClient(o)
  \/ \E o \in 1..MaxOps : ConnectSettles(o)
  \/ \E o \in 1..MaxOps : DiscoverSettles(o)
  \/ \E o \in 1..MaxOps : ThenCallback(o)
  \/ \E c \in 1..MaxCalls, h \in Handles : AwaitedDisconnectSettles(c, h)
  \/ \E c \in 1..MaxCalls : StopFinish(c)
  \/ \E c \in 1..MaxCalls : DiscoverAllAfterStop(c)
  \/ \E c \in 1..MaxCalls : CallSettles(c)
  \/ \E c \in 1..MaxCalls : UnloadFinish(c)

External ==
  \/ \E n \in Names, cfg \in Configs : CallDiscoverMcpTools(n, cfg)
  \/ \E S \in SUBSET Names, cfg \in Configs : CallLoadExtension(S, cfg)
  \/ \E S \in SUBSET Names : CallUnloadExtension(S)
  \/ CallStop
  \/ \E S \in SUBSET Names : \E I \in SUBSET S : CallDiscoverAll(S, I)

Next == Internal \/ External

Spec == Init /\ [][Next]_vars

(* Every connect(), discover() and disconnect() settles and the event loop *)
(* runs every continuation that is ready: some internal step is taken as   *)
(* long as one is possible.  The arrival of calls is not forced.           *)
FairSpec == Spec /\ WF_vars(Internal)

(* ------------------- stop() on a manager that has clients -------------- *)
(* The manager after a discoverAllMcpTools() that ran alone for the        *)
(* servers S and has resolved: operation i is the discovery of the i-th    *)
(* server, settled with result res[name]; its client is in the map whether *)
(* it connected or not (line 112 precedes connect()), and the then-        *)
(* callback of the last promise has set COMPLETED.  The record of that     *)
(* call is not kept (call 0).                                              *)
Results == {"ok", "connect_failed", "discover_failed"}

DiscoveredOp(name, o, res) ==
  [name |-> name,
   pc |-> "done",
   waitOn |-> 0,
   prom |-> 1..o,
   tried |-> IF res = "connect_failed" THEN {"connect"} ELSE {"connect", "discover"},
   res |-> res,
   outcome |-> "resolved",
   feedback |-> IF res = "ok" THEN 0 ELSE 1,
   call |-> 0]

Position(names, n) == CHOOSE i \in 1..Len(names) : names[i] = n

InitDiscovered ==
  \E S \in SUBSET Names : \E res \in [S -> Results] :
    /\ trusted = TRUE
    /\ ops = [i \in 1..Cardinality(S) |-> DiscoveredOp(InOrder(S)[i], i, res[InOrder(S)[i]])]
    /\ clients = [n \in Names |-> IF n \in S THEN Position(InOrder(S), n) ELSE 0]
    /\ disc = [h \in Handles |-> 0]
    /\ calls = <<>>
    /\ discoveryState = IF S = {} THEN "NOT_STARTED" ELSE "COMPLETED"
    /\ discoveryPromise = {}
    /\ toolCalls = <<>>
    /\ subs = <<>>
    /\ nextId = 1
    /\ displayed = <<>>
    /\ nresp = 0
    /\ perCall = NewManager

(* stop() called any number of times, overlapping or one after the other,  *)
(* and nothing else                                                        *)
StopNext ==
  \/ CallStop
  \/ \E c \in 1..MaxCalls, h \in Handles : AwaitedDisconnectSettles(c, h)
  \/ \E c \in 1..MaxCalls : StopFinish(c)

StopSpec == InitDiscovered /\ [][StopNext]_vars

(* ============ the per-call variant of McpClientManager ================= *)
(* src/unnamed/part_016: the manager without discoveryPromise.  The        *)
(* discovery state is written by loadExtension and discoverAllMcpTools     *)
(* around their own awaits; discoverMcpTools writes none.  disconnectClient *)
(* (lines 76-89), the body of discoverMcpTools after its first await       *)
(* (lines 100-124), unloadExtension up to its await (lines 55-62), stop()  *)
(* (lines 158-173) and the first lines of discoverAllMcpTools (133-136)    *)
(* are the code of the batch-merging manager: their definitions above      *)
(* serve for both.  The variant runs on the same variables;                *)
(* discoveryPromise stays {}.                                              *)

(* lines 91-98: the guards, then disconnectClient up to its await; the     *)
(* promise of the call is that of the operation alone                      *)
PerCallDiscoverMcpTools(m, name, cfg, call) ==
  IF Skipped(cfg) THEN m
  ELSE
    LET existing == m.clients[name]
        m1 == DisconnectClient(m, name)
        o == Len(m.ops) + 1
        op == [name |-> name,
               pc |-> "await_disconnect",
               waitOn |-> existing,
               prom |-> {o},
               tried |-> {},
               res |-> "pending",
               outcome |-> "pending",
               feedback |-> 0,
               call |-> call]
    IN [m1 EXCEPT !.ops = Append(@, op)]

RECURSIVE PerCallDiscoverEach(_, _, _, _)
PerCallDiscoverEach(m, names, cfgOf, call) ==
  IF names = <<>> THEN m
  ELSE PerCallDiscoverEach(
         PerCallDiscoverMcpTools(m, Head(names), cfgOf[Head(names)], call),
         Tail(names), cfgOf, call)

(* lines 66 and 143 *)
PerCallStateOnStart(st) == "IN_PROGRESS"

(* a caller that reports COMPLETED only when no operation is outstanding *)
PerCallStateIfDrained(os, st) ==
  IF \A o \in 1..Len(os) : os[o].outcome # "pending" THEN "COMPLETED" ELSE st

(* lines 73 and 151 *)
PerCallStateOnReturn(os, st) == "COMPLETED"

(* discoverMcpTools(name, config), lines 91-98 *)
PerCallCallDiscoverMcpTools(name, cfg) ==
  /\ Len(calls) < MaxCalls
  /\ Committed + (IF Passes(cfg) THEN 1 ELSE 0) <= MaxOps
  /\ SetMgr(PerCallDiscoverMcpTools(Mgr, name, cfg, Len(calls) + 1))
  /\ calls' = Append(calls,
       NewCall("one", IF Passes(cfg) THEN "discovering" ELSE "done", {name},
               IF cfg = "extInactive" THEN {name} ELSE {}, {}))
  /\ UNCHANGED <<busVars, perCall, trusted>>

(* loadExtension, lines 64-72 up to the await *)
PerCallCallLoadExtension(S, cfg) ==
  /\ Len(calls) < MaxCalls
  /\ Committed + (IF Passes(cfg) THEN Cardinality(S) ELSE 0) <= MaxOps
  /\ SetMgr(PerCallDiscoverEach(
              [Mgr EXCEPT !.discoveryState = PerCallStateOnStart(@)],
              InOrder(S), [n \in Names |-> cfg], Len(calls) + 1))
  /\ calls' = Append(calls,
       NewCall("load", "discovering", S, IF cfg = "extInactive" THEN S ELSE {}, {}))
  /\ UNCHANGED <<busVars, perCall, trusted>>

(* discoverAllMcpTools, lines 136-150: the await of stop() resumes *)
PerCallDiscoverAllAfterStop(c) ==
  /\ c \in 1..Len(calls)
  /\ calls[c].kind = "all"
  /\ calls[c].pc = "stopped"
  /\ SetMgr(PerCallDiscoverEach(
              [Mgr EXCEPT !.discoveryState = PerCallStateOnStart(@)],
              InOrder(calls[c].names), CfgOf(calls[c].inactive), c))
  /\ calls' = [calls EXCEPT ![c].pc = "discovering"]
  /\ UNCHANGED <<busVars, perCall, trusted>>

(* the promises of the call's discoverMcpTools have all settled: the await *)
(* of lines 67-72 or 150 resumes and line 73 or 151 runs; a discoverMcpTools *)
(* called directly just returns (line 125)                                 *)
PerCallReturn(c) ==
  /\ c \in 1..Len(calls)
  /\ calls[c].pc = "discovering"
  /\ \A o \in OpsOf(c) : ops[o].outcome # "pending"
  /\ discoveryState' = IF calls[c].kind = "one" THEN discoveryState
                       ELSE PerCallStateOnReturn(ops, discoveryState)
  /\ calls' = [calls EXCEPT ![c].pc = "done", ![c].outcome = "resolved"]
  /\ UNCHANGED <<busVars, perCall, trusted, clients, disc, ops, discoveryPromise>>

(* unloadExtension, line 62: the handler returns *)
PerCallUnloadFinish(c) ==
  /\ c \in 1..Len(calls)
  /\ calls[c].kind = "unload"
  /\ calls[c].pc = "disconnecting"
  /\ calls[c].wait = {}
  /\ calls' = [calls EXCEPT ![c].pc = "done", ![c].outcome = "resolved"]
  /\ UNCHANGED <<busVars, perCall, trusted, clients, disc, ops, discoveryState, discoveryPromise>>

PerCallNext ==
  \/ \E o \in 1..MaxOps : CreateClient(o)
  \/ \E o \in 1..MaxOps : ConnectSettles(o)
  \/ \E o \in 1..MaxOps : DiscoverSettles(o)
  \/ \E c \in 1..MaxCalls, h \in Handles : AwaitedDisconnectSettles(c, h)
  \/ \E c \in 1..MaxCalls : StopFinish(c)
  \/ \E c \in 1..MaxCalls : PerCallDiscoverAllAfterStop(c)
  \/ \E c \in 1..MaxCalls : PerCallReturn(c)
  \/ \E c \in 1..MaxCalls : PerCallUnloadFinish(c)
  \/ \E n \in Names, cfg \in Configs : PerCallCallDiscoverMcpTools(n, cfg)
  \/ \E S \in SUBSET Names, cfg \in Configs : PerCallCallLoadExtension(S, cfg)
  \/ \E S \in SUBSET Names : CallUnloadExtension(S)
  \/ CallStop
  \/ \E S \in SUBSET Names : \E I \in SUBSET S : CallDiscoverAll(S, I)

PerCallSpec == Init /\ [][PerCallNext]_vars

(* ============== the two managers, one call after the other ============= *)
(* Both managers receive the same calls, each call running to its end      *)
(* before the next is made, and the same results of connect() and          *)
(* discover().  The batch-merging manager runs on the variables, the       *)
(* per-call variant on the record perCall.  A call that runs alone is a    *)
(* function of the manager's fields and of these results: the operations   *)
(* of one call are for different servers.                                  *)

(* one operation from the resumption of its first await to its end:       *)
(* lines 104-131 (part_016: 100-124)                                       *)
RunOp(m, o, res) ==
  LET created == [m.ops[o] EXCEPT !.pc = "connecting", !.tried = {"connect"}]
      connected == [created EXCEPT !.pc = "discovering",
                                   !.tried = @ \cup {"discover"}]
  IN [m EXCEPT !.clients = NewClient(@, m.ops[o].name, o),
               !.ops[o] = IF res = "connect_failed" THEN OnConnectRejected(created)
                          ELSE IF res = "ok" THEN OnDiscovered(connected)
                          ELSE OnDiscoveryError(connected, "discover_failed")]

(* the operations o, o + 1, ... of the manager, each to its end *)
RECURSIVE RunOps(_, _, _)
RunOps(m, o, resOf) ==
  IF o > Len(m.ops) THEN m
  ELSE RunOps(RunOp(m, o, resOf[m.ops[o].name]), o + 1, resOf)

(* lines 145-150: the then-callback of the promise that is                 *)
(* this.discoveryPromise when all operations have settled                  *)
Drained(m) ==
  IF m.discoveryPromise # {}
    THEN [m EXCEPT !.discoveryPromise = {},
                   !.discoveryState = StateOnDrained(@)]
    ELSE m

(* stop(), lines 182-197, from call to return *)
Stopped(m) == ClearClients(StopSync(m))

(* the batch-merging manager: discoverMcpTools, loadExtension (the servers *)
(* of one extension share its config), discoverAllMcpTools                 *)
BatchDiscovered(m, names, cfgOf, resOf, call) ==
  Drained(RunOps(DiscoverEach(m, names, cfgOf, call), Len(m.ops) + 1, resOf))

BatchDiscoveredAll(m, names, cfgOf, resOf, call) ==
  IF ~trusted THEN m
  ELSE BatchDiscovered(Stopped(m), names, cfgOf, resOf, call)

(* the per-call variant: discoverMcpTools (part_016 lines 91-125),         *)
(* loadExtension (64-74), discoverAllMcpTools (132-152)                    *)
PerCallDiscovered(m, names, cfgOf, resOf, call) ==
  RunOps(PerCallDiscoverEach(m, names, cfgOf, call), Len(m.ops) + 1, resOf)

PerCallLoaded(m, names, cfgOf, resOf, call) ==
  LET m1 == [m EXCEPT !.discoveryState = PerCallStateOnStart(@)]
      m2 == PerCallDiscovered(m1, names, cfgOf, resOf, call)
  IN [m2 EXCEPT !.discoveryState = PerCallStateOnReturn(m2.ops, @)]

PerCallDiscoveredAll(m, names, cfgOf, resOf, call) ==
  IF ~trusted THEN m
  ELSE PerCallLoaded(Stopped(m), names, cfgOf, resOf, call)

(* the same call made to both managers, from call to return *)
BothCalled(b, p, kind, names, inactive) ==
  /\ Len(calls) < MaxCalls
  /\ Len(b.ops) <= MaxOps
  /\ SetMgr(b)
  /\ perCall' = p
  /\ calls' = Append(calls, NewCall(kind, "done", names, inactive, {}))
  /\ UNCHANGED <<busVars, trusted>>

BothDiscoverMcpTools(name, cfg, resOf) ==
  LET cfgOf == [n \in Names |-> cfg]
      c == Len(calls) + 1
  IN BothCalled(BatchDiscovered(Mgr, <<name>>, cfgOf, resOf, c),
                PerCallDiscovered(perCall, <<name>>, cfgOf, resOf, c),
                "one", {name}, IF cfg = "extInactive" THEN {name} ELSE {})

BothLoadExtension(S, cfg, resOf) ==
  LET cfgOf == [n \in Names |-> cfg]
      c == Len(calls) + 1
  IN BothCalled(BatchDiscovered(Mgr, InOrder(S), cfgOf, resOf, c),
                PerCallLoaded(perCall, InOrder(S), cfgOf, resOf, c),
                "load", S, IF cfg = "extInactive" THEN S ELSE {})

BothUnloadExtension(S) ==
  BothCalled(DisconnectEach(Mgr, InOrder(S)), DisconnectEach(perCall, InOrder(S)),
             "unload", S, {})

BothStop ==
  BothCalled(Stopped(Mgr), Stopped(perCall), "stop", {}, {})

BothDiscoverAll(S, inactive, resOf) ==
  LET c == Len(calls) + 1
  IN BothCalled(BatchDiscoveredAll(Mgr, InOrder(S), CfgOf(inactive), resOf, c),
                PerCallDiscoveredAll(perCall, InOrder(S), CfgOf(inactive), resOf, c),
                "all", S, inactive)

PairNext ==
  \/ \E n \in Names, cfg \in Configs, resOf \in [Names -> Results] :
       BothDiscoverMcpTools(n, cfg, resOf)
  \/ \E S \in SUBSET Names, cfg \in Configs, resOf \in [Names -> Results] :
       BothLoadExtension(S, cfg, resOf)
  \/ \E S \in SUBSET Names : BothUnloadExtension(S)
  \/ BothStop
  \/ \E S \in SUBSET Names : \E I \in SUBSET S : \E resOf \in [Names -> Results] :
       BothDiscoverAll(S, I, resOf)

PairSpec == Init /\ [][PairNext]_vars

(* ------------------------------ handles -------------------------------- *)
Created(o) == ops[o].pc # "await_disconnect"
Live(o) == Created(o) /\ disc[o] = 0
LiveHandles(n) == {o \in 1..Len(ops) : ops[o].name = n /\ Live(o)}
Settled(o) == ops[o].outcome # "pending"

(* ======================= MessageBusPlugin and the bus =================== *)
mgrVars == <<trusted, clients, disc, ops, calls, discoveryState, discoveryPromise,
            perCall>>

(* Correlation ids are the values of randomUUID(): every call returns a    *)
(* value no earlier call returned, here 1, 2, 3, ...  A call that has not  *)
(* reached line 48 awaits no id (0); a response may also carry an id that  *)
(* this plugin never generated (0 as well: no handler awaits it).          *)
HasId(tc) == tc.awaited > 0

(* The bus and the calls as one record, so that a publish can run the      *)
(* handlers one after the other within one action.                         *)
Bus == [toolCalls |-> toolCalls, subs |-> subs]

(* MessageBus.subscribe / unsubscribe / publish: handlers are kept per     *)
(* message type in subscription order and publish calls them in that order *)
Subscribe(sb, h) == Append(sb, h)
Unsubscribe(sb, h) == SelectSeq(sb, LAMBDA x : x # h)
IsSubscribed(sb, h) == \E i \in 1..Len(sb) : sb[i] = h

(* resolve / reject of the promise of line 60: only the first one settles *)
Settle(tc, how) ==
  [tc EXCEPT !.settles = @ + 1, !.pc = IF @ = "pending" THEN how ELSE @]

(* a handler that takes every response for its own *)
MatchesAny(response, tc) == TRUE

(* line 62 *)
Matches(response, tc) == response.correlationId = tc.awaited

(* a decision that proceeds whatever the answer *)
AlwaysProceed(response) == "resolved"

(* lines 67-72: resolve(undefined) or reject(new Error('... was denied.')) *)
Decision(response) == IF response.confirmed THEN "resolved" ELSE "denied"

(* a handler that settles but stays subscribed *)
OnMatchStaySubscribed(b, k, response) ==
  [b EXCEPT !.toolCalls[k] = Settle(@, Decision(response))]

(* lines 63-72: unsubscribe, then settle *)
OnMatch(b, k, response) ==
  [b EXCEPT !.subs = Unsubscribe(@, k),
            !.toolCalls[k] = Settle(@, Decision(response))]

(* lines 61-74: responseHandler of call k *)
ResponseHandler(b, k, response) ==
  IF Matches(response, b.toolCalls[k])
    THEN OnMatch(b, k, response)
    ELSE [b EXCEPT !.toolCalls[k].ignored = @ + 1]

RECURSIVE Deliver(_, _, _)
Deliver(b, hs, response) ==
  IF hs = <<>> THEN b
  ELSE Deliver(ResponseHandler(b, Head(hs), response), Tail(hs), response)

(* messageBus.publish of a TOOL_CONFIRMATION_RESPONSE.  got records, for   *)
(* every call, the answers of the responses that carried the id it awaits  *)
(* (history, not read by the code).                                        *)
Record(tcs, response) ==
  [k \in 1..Len(tcs) |->
     IF HasId(tcs[k]) /\ tcs[k].awaited = response.correlationId
       THEN [tcs[k] EXCEPT !.got = Append(@, response.confirmed)]
       ELSE tcs[k]]

Publish(b, response) ==
  LET b1 == Deliver(b, b.subs, response)
  IN [b1 EXCEPT !.toolCalls = Record(@, response)]

(* line 52: the display request carries the value of a second randomUUID() *)
DisplayCorrelationId(awaited, fresh) == fresh

(* a type check that lets every tool through *)
AnyToolAccepted(adapter) == "confirming"

(* lines 33-39: tool instanceof AdkToolAdapter, or                         *)
(* throw new Error('Invalid tool type passed: ...')                        *)
CheckTool(adapter) == IF adapter THEN "confirming" ELSE "threw"

(* lines 25-43: the tool is checked, the invocation built and              *)
(* shouldConfirmExecute awaited.  adapter, built and details record what   *)
(* the call was given and how far it went (history).                       *)
BeforeToolCallback(valid) ==
  /\ Len(toolCalls) < MaxToolCalls
  /\ toolCalls' = Append(toolCalls,
       [pc |-> CheckTool(valid),
        adapter |-> valid,
        built |-> (CheckTool(valid) = "confirming"),
        details |-> "unknown",
        awaited |-> 0, settles |-> 0, ignored |-> 0, got |-> <<>>,
        cancelled |-> "no"])
  /\ UNCHANGED <<mgrVars, subs, nextId, displayed, nresp>>

(* a return that leaves a handler subscribed behind *)
ProceedSubscribed(b, k) ==
  [b EXCEPT !.subs = Subscribe(@, k),
            !.toolCalls[k].pc = "resolved", !.toolCalls[k].details = "none"]

(* lines 44-46: return Promise.resolve(undefined) *)
ProceedImmediately(b, k) ==
  [b EXCEPT !.toolCalls[k].pc = "resolved", !.toolCalls[k].details = "none"]

(* lines 41-46: shouldConfirmExecute answers that no confirmation is       *)
(* required                                                                *)
NoConfirmationNeeded(k) ==
  /\ k \in 1..Len(toolCalls)
  /\ toolCalls[k].pc = "confirming"
  /\ toolCalls' = ProceedImmediately(Bus, k).toolCalls
  /\ subs' = ProceedImmediately(Bus, k).subs
  /\ UNCHANGED <<mgrVars, nextId, displayed, nresp>>

(* line 41: shouldConfirmExecute rejects and so does the call *)
ShouldConfirmRejects(k) ==
  /\ k \in 1..Len(toolCalls)
  /\ toolCalls[k].pc = "confirming"
  /\ toolCalls' = [toolCalls EXCEPT ![k].pc = "failed"]
  /\ UNCHANGED <<mgrVars, subs, nextId, displayed, nresp>>

(* a call that suspends without having subscribed its handler *)
AwaitUnsubscribed(b, k) == [b EXCEPT !.toolCalls[k].pc = "pending"]

(* lines 60, 76-80: the executor of the promise subscribes responseHandler, *)
(* then the call suspends on the promise                                   *)
AwaitDecision(b, k) ==
  [b EXCEPT !.subs = Subscribe(@, k), !.toolCalls[k].pc = "pending"]

(* lines 48-80: the display request is published, then the handler is      *)
(* subscribed.  A subscriber of the display request may answer within the  *)
(* publish, echoing the id of the request (reply).                         *)
RequestConfirmation(k, reply) ==
  /\ k \in 1..Len(toolCalls)
  /\ toolCalls[k].pc = "confirming"
  /\ reply # "none" => nresp < MaxResponses
  /\ LET correlationId == nextId
         shown == DisplayCorrelationId(correlationId, nextId + 1)
         b0 == [Bus EXCEPT !.toolCalls[k].awaited = correlationId,
                           !.toolCalls[k].details = "some"]
         b1 == IF reply = "none" THEN b0
               ELSE Publish(b0, [correlationId |-> shown,
                                 confirmed |-> (reply = "confirm")])
         b2 == AwaitDecision(b1, k)
     IN /\ toolCalls' = b2.toolCalls
        /\ subs' = b2.subs
        /\ displayed' = Append(displayed, [call |-> k, correlationId |-> shown])
        /\ nextId' = nextId + 2
        /\ nresp' = IF reply = "none" THEN nresp ELSE nresp + 1
  /\ UNCHANGED mgrVars

(* The runner cancels the encompassing tool call.  beforeToolCallback does *)
(* not read toolContext, and the signal it hands to shouldConfirmExecute   *)
(* (line 42) is that of a new AbortController nobody aborts: no code of    *)
(* the plugin runs on the cancellation, whenever it comes.  cancelled      *)
(* records a cancellation that came while the confirmation was pending     *)
(* (history, not read by the code); one that comes at another time leaves  *)
(* no trace at all.                                                        *)
CancelToolCall(k) ==
  /\ k \in 1..Len(toolCalls)
  /\ toolCalls[k].pc = "pending"
  /\ toolCalls[k].cancelled = "no"
  /\ toolCalls' = [toolCalls EXCEPT ![k].cancelled = toolCalls[k].pc]
  /\ UNCHANGED <<mgrVars, subs, nextId, displayed, nresp>>

(* some component publishes a TOOL_CONFIRMATION_RESPONSE *)
PublishResponse(id, confirmed) ==
  /\ nresp < MaxResponses
  /\ id \in 0..(nextId - 1)
  /\ LET b1 == Publish(Bus, [correlationId |-> id, confirmed |-> confirmed])
     IN /\ toolCalls' = b1.toolCalls
        /\ subs' = b1.subs
  /\ nresp' = nresp + 1
  /\ UNCHANGED <<mgrVars, nextId, displayed>>

BusNext ==
  \/ \E valid \in BOOLEAN : BeforeToolCallback(valid)
  \/ \E k \in 1..MaxToolCalls : NoConfirmationNeeded(k)
  \/ \E k \in 1..MaxToolCalls : ShouldConfirmRejects(k)
  \/ \E k \in 1..MaxToolCalls, reply \in {"none", "confirm", "deny"} :
       RequestConfirmation(k, reply)
  \/ \E k \in 1..MaxToolCalls : CancelToolCall(k)
  \/ \E id \in 0..(2 * MaxToolCalls), confirmed \in BOOLEAN :
       PublishResponse(id, confirmed)

BusSpec == Init /\ [][BusNext]_vars

(* ============================== the claims ============================= *)

(* C1: getDiscoveryState() is IN_PROGRESS, never COMPLETED, as long as any *)
(* discoverMcpTools operation that has started is still unsettled.         *)
C1_InProgressWhileOutstanding ==
  \A o \in 1..Len(ops) : ~Settled(o) => discoveryState = "IN_PROGRESS"

(* discoverMcpTools("b") started while discoverMcpTools("a") was in        *)
(* flight; "a" has settled, "b" has not.                                   *)
C1_Witness ==
  /\ Len(ops) = 2
  /\ ops[1].name = "a" /\ ops[2].name = "b"
  /\ ops[2].prom = {1, 2}
  /\ Settled(1) /\ ~Settled(2)
  /\ discoveryState = "IN_PROGRESS"

(* C2: at every instant there is at most one live handle (created and not  *)
(* yet disconnected) per server name.                                      *)
C2_AtMostOneLiveHandle ==
  \A n \in Names : Cardinality(LiveHandles(n)) <= 1

(* C3: after two overlapping discoverMcpTools calls for the same name have *)
(* settled, exactly one handle of that name is live, it is the one in the  *)
(* clients map, and disconnect() was invoked on every other one.           *)
TwoOverlappingCallsSettled ==
  /\ Len(calls) = 2 /\ Len(ops) = 2
  /\ calls[1].kind = "one" /\ calls[2].kind = "one"
  /\ ops[1].name = ops[2].name
  /\ ops[2].prom = {1, 2}
  /\ calls[1].pc = "done" /\ calls[2].pc = "done"

C3_OneLiveHandleAfterBoth ==
  TwoOverlappingCallsSettled =>
    /\ Cardinality(LiveHandles(ops[1].name)) = 1
    /\ clients[ops[1].name] \in LiveHandles(ops[1].name)
    /\ \A o \in 1..2 : Created(o) /\ o # clients[ops[1].name] => disc[o] > 0

(* C7: a discoverAllMcpTools() that ran alone, with a server whose         *)
(* connect() failed, has resolved, and every other configured server has   *)
(* had connect() attempted, discover() attempted when its connect()        *)
(* succeeded, and has its own live handle in the clients map.              *)
AloneAllDone(c) ==
  /\ c = Len(calls) /\ calls[c].kind = "all" /\ calls[c].quiet /\ trusted
  /\ calls[c].pc = "done"

ServerOp(c, n) == {o \in OpsOf(c) : ops[o].name = n}

C7_Isolation ==
  \A c \in 1..Len(calls) :
    AloneAllDone(c) =>
      /\ calls[c].outcome = "resolved"
      /\ \A n \in calls[c].names \ calls[c].inactive :
           \E o \in ServerOp(c, n) :
             /\ ServerOp(c, n) = {o}
             /\ "connect" \in ops[o].tried
             /\ ops[o].res # "connect_failed" => "discover" \in ops[o].tried
             /\ clients[n] = o
             /\ Live(o)

C7_Witness ==
  \E c \in 1..Len(calls) :
    /\ AloneAllDone(c)
    /\ calls[c].names = Names /\ calls[c].inactive = {}
    /\ \E x \in OpsOf(c) : ops[x].res = "connect_failed"
    /\ \E y \in OpsOf(c) : ops[y].res = "ok" /\ clients[ops[y].name] = y /\ Live(y)

(* C8: no discoverMcpTools or discoverAllMcpTools promise rejects; a       *)
(* failed connect() or discover() is reported by exactly one emitFeedback  *)
(* and a successful discovery by none; and every discovery call made       *)
(* eventually resolves: again and again all the calls made so far have     *)
(* resolved (a call that is made stays made).                              *)
DiscoveryCalls == {c \in 1..Len(calls) : calls[c].kind \in {"one", "all", "load"}}

NeverRejects ==
  /\ \A o \in 1..Len(ops) : ops[o].outcome # "rejected"
  /\ \A c \in DiscoveryCalls : calls[c].outcome # "rejected"

ReportedOnce ==
  \A o \in 1..Len(ops) :
    /\ ops[o].res \in {"connect_failed", "discover_failed"} => ops[o].feedback = 1
    /\ ops[o].res \in {"pending", "ok"} => ops[o].feedback = 0

C8_NeverRejectsAlwaysResolves ==
  /\ [](NeverRejects /\ ReportedOnce)
  /\ []<>(\A c \in DiscoveryCalls : calls[c].outcome = "resolved")

C8_Witness ==
  \E c \in DiscoveryCalls :
    /\ calls[c].outcome = "resolved"
    /\ \E o \in OpsOf(c) : ops[o].res = "connect_failed" /\ ops[o].feedback = 1
    /\ \E o \in OpsOf(c) : ops[o].res = "discover_failed" /\ ops[o].feedback = 1

(* C9: once a discovery operation has started, the state eventually is     *)
(* COMPLETED, and it becomes COMPLETED only in a step in which every       *)
(* operation started so far has settled.                                   *)
AllSettled == \A o \in 1..Len(ops) : Settled(o)

C9_EventuallyCompleted ==
  /\ (Len(ops) > 0) ~> (discoveryState = "COMPLETED")
  /\ [][discoveryState # "COMPLETED" /\ discoveryState' = "COMPLETED" => AllSettled]_vars

C9_Witness ==
  /\ Len(ops) >= 2
  /\ ops[2].prom = {1, 2}
  /\ AllSettled
  /\ discoveryState = "COMPLETED"

(* C4: two responses that carry the awaited correlation id settle the      *)
(* suspended call once, by the first of them: resolve/reject is invoked    *)
(* once and the handler is no longer subscribed when the second arrives.   *)
C4_SettledExactlyOnce ==
  \A k \in 1..Len(toolCalls) :
    /\ toolCalls[k].settles <= 1
    /\ toolCalls[k].got # <<>> =>
         /\ toolCalls[k].settles = 1
         /\ ~IsSubscribed(subs, k)

C4_Witness ==
  \E k \in 1..Len(toolCalls) :
    /\ Len(toolCalls[k].got) = 2
    /\ toolCalls[k].settles = 1
    /\ toolCalls[k].pc \in {"resolved", "denied"}

(* C5: the correlation id of every published display request is the id    *)
(* its call matches responses against.                                     *)
C5_DisplayCarriesAwaitedId ==
  \A i \in 1..Len(displayed) :
    displayed[i].correlationId = toolCalls[displayed[i].call].awaited

(* C6: a step in which no response carrying the id awaited by a pending    *)
(* call is published leaves that call pending and its handler subscribed:  *)
(* a response for another call, or for none, does not touch it.            *)
Untouched(k) ==
  /\ toolCalls'[k].pc = "pending"
  /\ toolCalls'[k].settles = toolCalls[k].settles
  /\ IsSubscribed(subs', k)

C6_CorrelationIsolation ==
  [][\A k \in 1..Len(toolCalls) :
       /\ toolCalls[k].pc = "pending"
       /\ IsSubscribed(subs, k)
       /\ toolCalls'[k].got = toolCalls[k].got
       => Untouched(k)]_vars

(* the only response published so far carried the id of call 1 and settled *)
(* it; the handler of call 2 saw that response and call 2 is still pending *)
C6_Witness ==
  /\ Len(toolCalls) = 2
  /\ nresp = 1
  /\ Len(toolCalls[1].got) = 1 /\ toolCalls[1].pc \in {"resolved", "denied"}
  /\ toolCalls[2].pc = "pending" /\ toolCalls[2].ignored = 1
  /\ IsSubscribed(subs, 2)

(* C10: a call that awaited a confirmation ends as the first response with *)
(* its id says: rejected with the denied error on confirmed = false,       *)
(* resolved on confirmed = true, and with no other error.                  *)
C10_DenialPath ==
  \A k \in 1..Len(toolCalls) :
    HasId(toolCalls[k]) =>
      /\ toolCalls[k].pc \in {"pending", "resolved", "denied"}
      /\ toolCalls[k].pc = "denied" <=>
           (toolCalls[k].got # <<>> /\ ~toolCalls[k].got[1])
      /\ toolCalls[k].pc = "resolved" <=>
           (toolCalls[k].got # <<>> /\ toolCalls[k].got[1])

C10_Witness ==
  /\ Len(toolCalls) = 2
  /\ toolCalls[1].pc = "denied" /\ toolCalls[1].got = <<FALSE>>
  /\ toolCalls[2].pc = "resolved" /\ toolCalls[2].got = <<TRUE>>

(* C11: a call cancelled while its confirmation was pending, and that no   *)
(* response has answered, is rejected with the cancellation error and its  *)
(* response handler is no longer subscribed.                               *)
C11_CancellationUnsubscribes ==
  \A k \in 1..Len(toolCalls) :
    toolCalls[k].cancelled = "pending" /\ toolCalls[k].got = <<>> =>
      /\ toolCalls[k].pc = "cancelled"
      /\ ~IsSubscribed(subs, k)

(* the display requests published by call k *)
DisplayedBy(k) == {i \in 1..Len(displayed) : displayed[i].call = k}

(* C12: a call whose shouldConfirmExecute answered that no confirmation is *)
(* required has resolved in that very step, has published no display      *)
(* request, has drawn no correlation id and has no handler subscribed.     *)
C12_NoConfirmationNoBusTraffic ==
  \A k \in 1..Len(toolCalls) :
    toolCalls[k].details = "none" =>
      /\ toolCalls[k].pc = "resolved"
      /\ toolCalls[k].settles = 0
      /\ DisplayedBy(k) = {}
      /\ ~HasId(toolCalls[k])
      /\ ~IsSubscribed(subs, k)

(* call 1 needed a confirmation and is waiting for it, call 2 needed none  *)
C12_Witness ==
  /\ Len(toolCalls) = 2
  /\ toolCalls[1].details = "some" /\ toolCalls[1].pc = "pending"
  /\ subs = <<1>> /\ Len(displayed) = 1
  /\ toolCalls[2].details = "none" /\ toolCalls[2].pc = "resolved"

(* C17: a call given a tool that is not an AdkToolAdapter has failed with  *)
(* the invalid-tool-type error, has built no invocation and asked for no   *)
(* confirmation, has published nothing and has no handler subscribed.      *)
C17_InvalidToolFailsFirst ==
  \A k \in 1..Len(toolCalls) :
    ~toolCalls[k].adapter =>
      /\ toolCalls[k].pc = "threw"
      /\ ~toolCalls[k].built
      /\ toolCalls[k].details = "unknown"
      /\ DisplayedBy(k) = {}
      /\ ~HasId(toolCalls[k])
      /\ ~IsSubscribed(subs, k)

(* call 1 was given an adapter and waits for its confirmation, call 2 was  *)
(* given another kind of tool                                              *)
C17_Witness ==
  /\ Len(toolCalls) = 2
  /\ toolCalls[1].adapter /\ toolCalls[1].pc = "pending" /\ subs = <<1>>
  /\ ~toolCalls[2].adapter /\ toolCalls[2].pc = "threw"
  /\ nresp > 0

(* C13: stop() invokes disconnect() on every handle that is in the clients *)
(* map when it is called; it never rejects and, every disconnect() having  *)
(* settled (resolved or rejected), it resolves; the clients map is empty   *)
(* in the step in which it resolves.  (Resolves: again and again every     *)
(* stop() called so far has resolved.)                                     *)
StopCalls == {c \in 1..Len(calls) : calls[c].kind = "stop"}

StopCalledNow ==
  /\ Len(calls') = Len(calls) + 1
  /\ calls'[Len(calls')].kind = "stop"

StopResolvesNow(c) ==
  /\ calls[c].kind = "stop"
  /\ calls[c].pc # "done" /\ calls'[c].pc = "done"

C13_StopDisconnectsAllAndClears ==
  /\ [][StopCalledNow =>
          /\ calls'[Len(calls')].snap = InMap(Mgr)
          /\ \A h \in Handles :
               disc'[h] = IF h \in InMap(Mgr) THEN disc[h] + 1 ELSE disc[h]]_vars
  /\ [][\A c \in 1..Len(calls) :
          StopResolvesNow(c) =>
            /\ calls'[c].outcome = "resolved"
            /\ \A n \in Names : clients'[n] = 0]_vars
  /\ [](\A c \in StopCalls : calls[c].outcome # "rejected")
  /\ []<>(\A c \in StopCalls : calls[c].outcome = "resolved")

(* a stop() that found a handle in the map, whose disconnect() rejected,   *)
(* has resolved                                                            *)
C13_Witness ==
  \E c \in StopCalls :
    /\ calls[c].snap # {}
    /\ calls[c].failed
    /\ calls[c].outcome = "resolved"
    /\ \A h \in calls[c].snap : disc[h] > 0

(* C14: of two stop() calls in a row, the second made after the first has  *)
(* resolved and with no discovery in between, neither rejects, the clients *)
(* map is empty once either has resolved, and the second invokes           *)
(* disconnect() on no handle: every handle the first call found in the map *)
(* has had disconnect() invoked once, every other handle never.            *)
StopTwiceInARow ==
  /\ Len(calls) = 2
  /\ calls[1].kind = "stop" /\ calls[2].kind = "stop"
  /\ calls[2].quiet

C14_StopTwiceIdempotent ==
  /\ \A c \in StopCalls :
       /\ calls[c].outcome # "rejected"
       /\ calls[c].pc = "done" => \A n \in Names : clients[n] = 0
  /\ StopTwiceInARow =>
       /\ calls[2].snap = {}
       /\ \A h \in Handles : disc[h] = IF h \in calls[1].snap THEN 1 ELSE 0

(* the first stop() found two clients, one disconnect() rejected; both     *)
(* calls have resolved                                                     *)
C14_Witness ==
  /\ StopTwiceInARow
  /\ Cardinality(calls[1].snap) = 2 /\ calls[1].failed
  /\ calls[1].outcome = "resolved" /\ calls[2].outcome = "resolved"

(* C15: a discoverAllMcpTools() has started no discoverMcpTools while its  *)
(* stop() is in progress; it starts them in a step taken after every       *)
(* disconnect() of that stop() has settled and the map has been cleared,   *)
(* and it starts all of them in that one step, one for every configured    *)
(* server of an active extension, before any of them has created a handle.*)
AllCalls == {c \in 1..Len(calls) : calls[c].kind = "all"}

StopOfAllReturnsNow(c) ==
  /\ calls[c].kind = "all"
  /\ calls[c].pc = "stopping" /\ calls'[c].pc # "stopping"

DiscoveriesOfAllStartNow(c) ==
  /\ calls[c].kind = "all"
  /\ OpsOf(c)' # OpsOf(c)

C15_StopBeforeDiscoverAll ==
  /\ [](\A c \in AllCalls : calls[c].pc \in {"stopping", "stopped"} => OpsOf(c) = {})
  /\ [][\A c \in 1..Len(calls) :
          StopOfAllReturnsNow(c) =>
            /\ calls[c].wait = {}
            /\ calls'[c].pc = "stopped"
            /\ \A n \in Names : clients'[n] = 0]_vars
  /\ [][\A c \in 1..Len(calls) :
          DiscoveriesOfAllStartNow(c) =>
            /\ calls[c].pc = "stopped" /\ calls[c].wait = {}
            /\ OpsOf(c) = {}
            /\ {ops'[o].name : o \in OpsOf(c)'} = calls[c].names \ calls[c].inactive
            /\ Cardinality(OpsOf(c)') = Cardinality(calls[c].names \ calls[c].inactive)
            /\ \A o \in OpsOf(c)' : ops'[o].pc = "await_disconnect"]_vars

(* the stop() of a discoverAllMcpTools() found a client whose disconnect() *)
(* rejected; the discoveries of both servers are connecting at once        *)
C15_Witness ==
  \E c \in AllCalls :
    /\ calls[c].snap # {} /\ calls[c].failed
    /\ Cardinality(OpsOf(c)) = 2
    /\ \A o \in OpsOf(c) : ops[o].pc = "connecting"

(* C16: the handler of a load / enable event starts discoverMcpTools for   *)
(* every server of the extension and calls setTools() only when all of     *)
(* them have settled; the handler of a disable / unload event disconnects  *)
(* every server of the extension that has a client and calls setTools()    *)
(* only when all these disconnects have settled; and each handler does     *)
(* call setTools(), whether or not a discovery or a disconnect() failed    *)
(* (again and again every handler started so far has called it).           *)
LoadCalls == {c \in 1..Len(calls) : calls[c].kind = "load"}
UnloadCalls == {c \in 1..Len(calls) : calls[c].kind = "unload"}

UnloadCalledNow ==
  /\ Len(calls') = Len(calls) + 1
  /\ calls'[Len(calls')].kind = "unload"

C16_SetToolsAfterAllSettled ==
  /\ [](\A c \in LoadCalls :
          /\ {ops[o].name : o \in OpsOf(c)} =
                IF trusted THEN calls[c].names \ calls[c].inactive ELSE {}
          /\ calls[c].setTools => \A o \in OpsOf(c) : Settled(o))
  /\ [](\A c \in UnloadCalls : calls[c].setTools => calls[c].wait = {})
  /\ [][UnloadCalledNow =>
          LET c == Len(calls') IN
          /\ calls'[c].snap = {clients[n] : n \in calls'[c].names} \ {0}
          /\ \A n \in calls'[c].names : clients'[n] = 0
          /\ \A h \in Handles :
               disc'[h] = IF h \in calls'[c].snap THEN disc[h] + 1 ELSE disc[h]]_vars
  /\ []<>(\A c \in LoadCalls \cup UnloadCalls : calls[c].setTools)

(* an extension with two servers was loaded, one discovery failed, and     *)
(* then unloaded, one disconnect() rejected: setTools() was called by both *)
C16_Witness ==
  /\ Len(calls) = 2
  /\ calls[1].kind = "load" /\ calls[1].setTools
  /\ Cardinality(OpsOf(1)) = 2
  /\ \E o \in OpsOf(1) : ops[o].res \in {"connect_failed", "discover_failed"}
  /\ calls[2].kind = "unload" /\ calls[2].setTools
  /\ Cardinality(calls[2].snap) = 2 /\ calls[2].failed

(* C18: whenever the state is COMPLETED, a server whose latest discovery   *)
(* failed (connect() or discover() rejected) has no handle in the clients  *)
(* map and a server whose latest discovery succeeded has one.              *)
OpsFor(n) == {o \in 1..Len(ops) : ops[o].name = n}

LatestOp(n) == CHOOSE o \in OpsFor(n) : \A x \in OpsFor(n) : x <= o

C18_MapReflectsOutcomes ==
  discoveryState = "COMPLETED" =>
    \A n \in Names :
      OpsFor(n) # {} =>
        /\ ops[LatestOp(n)].res \in {"connect_failed", "discover_failed"} =>
             clients[n] = 0
        /\ ops[LatestOp(n)].res = "ok" => clients[n] \in OpsFor(n)

(* C19: when a stop(), called directly or by discoverAllMcpTools, runs     *)
(* next to discoveries of different servers (no two discoveries of the     *)
(* same server, which C2 and C3 are about), every handle ever created is   *)
(* in the clients map or has had disconnect() invoked on it.               *)
StoppingCalls == {c \in 1..Len(calls) : calls[c].kind \in {"stop", "all"}}

OneDiscoveryPerServer == \A n \in Names : Cardinality(OpsFor(n)) <= 1

C19_NoHandleLost ==
  StoppingCalls # {} /\ OneDiscoveryPerServer =>
    \A o \in 1..Len(ops) :
      Created(o) => clients[ops[o].name] = o \/ disc[o] > 0

(* C20: once the disconnect / connect / discover sequence of a discovery   *)
(* has settled, the promise its discoverMcpTools call returned has settled *)
(* too, whatever discoveries of other servers are still outstanding.       *)
PromiseSettled(p) == Resolved(ops, p) \/ Rejected(ops, p)

OtherServers(o) == {x \in 1..Len(ops) : ops[x].name # ops[o].name}

C20_ReturnedPromiseIndependent ==
  \A o \in 1..Len(ops) :
    Settled(o) /\ ops[o].prom \subseteq ({o} \cup OtherServers(o)) =>
      PromiseSettled(ops[o].prom)

(* C22: the state is COMPLETED if and only if no discovery operation is    *)
(* outstanding: the batch promise is unset and every operation started has *)
(* settled.                                                                *)
NoneOutstanding == discoveryPromise = {} /\ AllSettled

C22_CompletedIffNoneOutstanding ==
  discoveryState = "COMPLETED" <=> NoneOutstanding

(* C22 as amended: the state is NOT_STARTED exactly as long as no          *)
(* discovery operation has started; from then on it is COMPLETED if and    *)
(* only if none is outstanding, and IN_PROGRESS otherwise.                 *)
C22_CompletedIffStartedAndNoneOutstanding ==
  /\ discoveryState = "NOT_STARTED" <=> Len(ops) = 0
  /\ discoveryState = "COMPLETED" <=> (Len(ops) > 0 /\ NoneOutstanding)
  /\ discoveryState = "IN_PROGRESS" <=> discoveryPromise # {}

(* two batches, one after the other, have both drained *)
C22_Witness ==
  /\ Len(ops) = 2
  /\ ops[1].prom = {1} /\ ops[2].prom = {2}
  /\ NoneOutstanding
  /\ discoveryState = "COMPLETED"

(* C23: the state changes only from NOT_STARTED to IN_PROGRESS, from       *)
(* IN_PROGRESS to COMPLETED and from COMPLETED to IN_PROGRESS, and a step  *)
(* in which a discovery operation joins a batch in flight does not change  *)
(* it.                                                                     *)
StateTransitions ==
  {<<"NOT_STARTED", "IN_PROGRESS">>, <<"IN_PROGRESS", "COMPLETED">>,
   <<"COMPLETED", "IN_PROGRESS">>}

JoinsBatchNow == discoveryPromise # {} /\ Len(ops') > Len(ops)

C23_StateTransitions ==
  /\ [][discoveryState' # discoveryState =>
          <<discoveryState, discoveryState'>> \in StateTransitions]_vars
  /\ [][JoinsBatchNow => discoveryState' = discoveryState]_vars

(* a second call joined the batch of the first, and the batch has drained  *)
C23_Witness ==
  /\ Len(calls) = 2 /\ Len(ops) = 2
  /\ ops[1].call = 1 /\ ops[2].call = 2
  /\ ops[2].prom = {1, 2}
  /\ discoveryState = "COMPLETED"


(* C24: within one discoverMcpTools(name) call, the handle found in the    *)
(* map for name has been removed from the map and its disconnect() has     *)
(* been invoked and awaited before the new handle is constructed and       *)
(* stored; connect() is invoked before discover(), and discover() is not   *)
(* invoked when connect() rejected.                                        *)
StartsNow(o) == o > Len(ops) /\ o <= Len(ops')

CreatesNow(o) == o <= Len(ops) /\ ~Created(o) /\ Created(o)'

C24_StepOrder ==
  /\ [][\A o \in Handles :
          StartsNow(o) =>
            /\ ops'[o].waitOn \in {0, clients[ops'[o].name]}
            /\ ops'[o].tried = {} /\ ~Created(o)'
            /\ clients'[ops'[o].name] = 0]_vars
  /\ [][\A o \in Handles :
          CreatesNow(o) =>
            /\ clients[ops[o].name] # o
            /\ ops[o].waitOn # 0 =>
                 disc[ops[o].waitOn] > 0 /\ clients[ops[o].name] # ops[o].waitOn
            /\ clients'[ops[o].name] = o
            /\ ops'[o].tried = {"connect"}]_vars
  /\ [][\A o \in Handles :
          (o <= Len(ops) /\ "discover" \in ops'[o].tried
             /\ "discover" \notin ops[o].tried) =>
            "connect" \in ops[o].tried /\ ops'[o].res = "pending"]_vars
  /\ [](\A o \in 1..Len(ops) :
          /\ ops[o].res = "connect_failed" => ops[o].tried = {"connect"}
          /\ ~Created(o) => \A n \in Names : clients[n] # o
          /\ ops[o].waitOn # 0 =>
               disc[ops[o].waitOn] > 0 /\ clients[ops[o].name] # ops[o].waitOn)

C24_Witness ==
  \E o \in 1..Len(ops) :
    /\ ops[o].waitOn # 0 /\ clients[ops[o].name] = o
    /\ ops[o].res = "connect_failed"
    /\ \E x \in 1..Len(ops) : ops[x].res = "ok" /\ ops[x].tried = {"connect", "discover"}


(* C25: a response handler is subscribed exactly while its call awaits a   *)
(* decision: subscribed when the call suspends, unsubscribed in the step   *)
(* in which the call resolves or rejects, so the number of subscribed      *)
(* handlers is at every instant the number of pending confirmations.       *)
PendingConfirmations == {k \in 1..Len(toolCalls) : toolCalls[k].pc = "pending"}

C25_SubscribedWhilePending ==
  /\ [](/\ Len(subs) = Cardinality(PendingConfirmations)
        /\ \A k \in 1..Len(toolCalls) :
             IsSubscribed(subs, k) <=> k \in PendingConfirmations)
  /\ [][\A k \in 1..Len(toolCalls) :
          (toolCalls[k].pc = "pending" /\ toolCalls'[k].pc # "pending") <=>
          (IsSubscribed(subs, k) /\ ~IsSubscribed(subs', k))]_vars

C25_Witness ==
  /\ Len(toolCalls) = 2
  /\ toolCalls[1].pc = "denied" /\ toolCalls[1].settles = 1
  /\ toolCalls[2].pc = "pending" /\ toolCalls[2].ignored > 0
  /\ subs = <<2>>


(* C26: after a discoverAllMcpTools() that no other discovery call         *)
(* overlapped has resolved in a trusted folder, the discovery state is     *)
(* COMPLETED, whatever the configured server set: also the empty set and   *)
(* a set whose servers all belong to inactive extensions.                  *)
C26_CompletedAfterDiscoverAll ==
  \A c \in 1..Len(calls) :
    (AloneAllDone(c) /\ calls[c].outcome = "resolved") =>
      discoveryState = "COMPLETED"


(* C27: once the handler of an extension unload event has completed and    *)
(* every discovery that was in flight for the extension's servers has      *)
(* settled, with no later load, the clients map holds no handle for any    *)
(* of these servers, also when the event came while a discoverMcpTools of  *)
(* one of them had started and not yet registered its handle.              *)
(* (Stated for discoveries started by discoverMcpTools and loadExtension   *)
(* calls made before the event, which start their operations at once.)     *)
UnloadedAndSettled(c) ==
  /\ calls[c].kind = "unload" /\ calls[c].pc = "done"
  /\ \A d \in 1..Len(calls) : d # c => (d < c /\ calls[d].kind \in {"one", "load"})
  /\ \A o \in 1..Len(ops) : ops[o].name \in calls[c].names => Settled(o)

C27_UnloadedServersGone ==
  \A c \in 1..Len(calls) :
    UnloadedAndSettled(c) => \A n \in calls[c].names : clients[n] = 0


(* C28: the response handler of a confirmation is already subscribed when  *)
(* its display request is published: a response that a subscriber of the   *)
(* display request publishes synchronously during that publish reaches the *)
(* call, which is then decided and not left pending.                       *)
DisplayRequestAnsweredNow ==
  Len(displayed') > Len(displayed) /\ nresp' > nresp

C28_SynchronousReplyDelivered ==
  [][DisplayRequestAnsweredNow =>
       toolCalls'[displayed'[Len(displayed')].call].pc \in {"resolved", "denied"}]_vars


(* C29: discoverMcpTools is a no-op when the folder is not trusted or the  *)
(* server's extension is not active: no handle is created, none is         *)
(* disconnected, the clients map and the discovery state stay as they      *)
(* are; discoverAllMcpTools in a folder that is not trusted does not call  *)
(* stop() and changes nothing either.                                      *)
CalledNow == Len(calls') = Len(calls) + 1

GuardedOut(call) ==
  \/ call.kind = "one" /\ (~trusted \/ call.inactive # {})
  \/ call.kind = "all" /\ ~trusted

C29_GuardedCallsAreNoOps ==
  [][(CalledNow /\ GuardedOut(calls'[Len(calls')])) =>
       /\ UNCHANGED <<clients, disc, ops, discoveryState, discoveryPromise>>
       /\ calls'[Len(calls')].pc = "done"
       /\ calls'[Len(calls')].outcome = "resolved"
       /\ calls'[Len(calls')].snap = {}]_vars

C29_Witness ==
  /\ trusted /\ Len(calls) = 2 /\ Len(ops) = 1
  /\ calls[2].kind = "one" /\ calls[2].inactive # {}
  /\ calls[2].names = {ops[1].name}
  /\ clients[ops[1].name] = 1 /\ disc[1] = 0
  /\ discoveryState = "IN_PROGRESS"


(* C21: in the per-call variant there is a reachable interleaving of       *)
(* discoverAllMcpTools and an extension-load event in which the discovery  *)
(* state is COMPLETED while an operation started by the other of the two   *)
(* is still outstanding: the one that returns writes COMPLETED whatever    *)
(* operations of other calls are outstanding.                              *)
ReturnsNow(c) == calls[c].pc = "discovering" /\ calls'[c].pc = "done"

OutstandingOf(d) == {o \in OpsOf(d) : ~Settled(o)}

C21_ReturnReportsCompleted ==
  [][\A c \in 1..Len(calls) :
       (ReturnsNow(c) /\ calls[c].kind \in {"load", "all"}) =>
         discoveryState' = "COMPLETED"]_vars

C21_Witness ==
  /\ discoveryState = "COMPLETED"
  /\ \E c, d \in 1..Len(calls) :
       /\ {calls[c].kind, calls[d].kind} = {"load", "all"}
       /\ calls[c].pc = "done" /\ OpsOf(c) # {}
       /\ OutstandingOf(d) # {}


(* C30: for every sequence of calls that do not overlap, the batch-merging *)
(* manager and the per-call variant report the same discovery state after  *)
(* each call and have the same set of server names in their clients maps.  *)
ServerNames(cl) == {n \in Names : cl[n] # 0}

C30_VariantsAgree ==
  /\ discoveryState = perCall.discoveryState
  /\ ServerNames(clients) = ServerNames(perCall.clients)

====
